---------------------------- MODULE Spec2Model ----------------------------
(***************************************************************************)
(* The text trace backend of pymc3 (pymc3/backends/text.py): one CSV file  *)
(* per chain, written by Text.setup / Text.record / Text.close and read    *)
(* back through a lazily loaded table by __len__, get_values and point.    *)
(*                                                                         *)
(* Text is modelled as sequences of one-character strings, a file as the   *)
(* sequence of its lines (the text between the newlines), and an n-d array *)
(* as a record [shape, at] whose `at` maps every multi-index to a number.  *)
(* A file holds what has been passed to write(): the buffer of the Python  *)
(* file object is not modelled, so what is said of a file that is read     *)
(* after it was written is said of a file no writer has open.              *)
(*                                                                         *)
(* A chain has one writer at a time (the caller's duty), and an object is  *)
(* built for at least one variable.  `written` and `phase` are history     *)
(* variables: no method reads them.                                        *)
(*                                                                         *)
(* Five specifications share the variables: Spec (the writers and          *)
(* __len__), SpecRead (one object, every read), SpecHandles (the writers   *)
(* on an interpreter that closes an unreferenced file at once or later),   *)
(* SpecCodec (_create_flat_names and _create_shape on names and shapes of  *)
(* any model) and SpecStore (dump and load on a directory).  In Spec,      *)
(* SpecRead and SpecStore an unreferenced file object is closed at once.   *)
(***************************************************************************)
EXTENDS Integers, Sequences, FiniteSets

(***************************************************************************)
(* Bounds of the model.                                                    *)
(***************************************************************************)
\* the largest number of data rows the directory holds (in SpecStore: that
\* a chain of a dumped trace holds)
MaxRows == 2
\* the sampled points passed to record, by number
Draws == {0, 1}

\* chain numbers passed to setup
Chains == {0, 1}
\* the Text objects of the run
Objs == {1, 2}
\* Python's None, for filename and _fh
None == -1

(***************************************************************************)
(* Text: str(), int parsing, ','.join and .split(',').                     *)
(***************************************************************************)
Digits == <<"0", "1", "2", "3", "4", "5", "6", "7", "8", "9">>

RECURSIVE Str(_)
\* str(n) of a non-negative integer, as done for every value in record
Str(n) == IF n < 10 THEN <<Digits[n + 1]>>
          ELSE Str(n \div 10) \o <<Digits[(n % 10) + 1]>>

DigitOf(ch) == (CHOOSE i \in 1..10 : Digits[i] = ch) - 1

RECURSIVE ParseInt(_)
\* the integer pd.read_csv reads from a field of digits
ParseInt(s) == IF Len(s) = 1 THEN DigitOf(s[1])
               ELSE 10 * ParseInt(SubSeq(s, 1, Len(s) - 1)) + DigitOf(s[Len(s)])

RECURSIVE Join(_, _)
\* sep.join(parts)
Join(parts, sep) ==
    IF Len(parts) = 0 THEN <<>>
    ELSE IF Len(parts) = 1 THEN parts[1]
    ELSE parts[1] \o sep \o Join(Tail(parts), sep)

RECURSIVE Split(_, _)
\* s.split(ch): one more part than s holds separators, '' gives ['']
Split(s, ch) ==
    IF \A i \in 1..Len(s) : s[i] # ch THEN <<s>>
    ELSE LET k == CHOOSE i \in 1..Len(s) :
                      s[i] = ch /\ \A j \in 1..(i - 1) : s[j] # ch
         IN <<SubSeq(s, 1, k - 1)>> \o Split(SubSeq(s, k + 1, Len(s)), ch)

RECURSIVE Concat(_)
\* the concatenation of a sequence of sequences
Concat(ss) == IF Len(ss) = 0 THEN <<>> ELSE ss[1] \o Concat(Tail(ss))

(***************************************************************************)
(* Arrays.                                                                 *)
(***************************************************************************)
RECURSIVE Prod(_)
\* np.prod(shape)
Prod(shape) == IF Len(shape) = 0 THEN 1 ELSE shape[1] * Prod(Tail(shape))

Max(a, b) == IF a > b THEN a ELSE b
Min(a, b) == IF a < b THEN a ELSE b

RECURSIVE Largest(_)
\* the largest dimension of a shape
Largest(shape) == IF Len(shape) = 0 THEN 0 ELSE Max(shape[1], Largest(Tail(shape)))

\* the multi-indices of an array of this shape
Indices(shape) ==
    {m \in [1..Len(shape) -> 0..(Largest(shape) - 1)] :
        \A d \in 1..Len(shape) : m[d] < shape[d]}

\* the multi-index at flat position k (from 0) in row-major (C) order, as
\* np.indices(shape) ravelled gives it: axis d counts (k div stride) mod size
Unravel(k, shape) ==
    [d \in 1..Len(shape) |->
        (k \div Prod(SubSeq(shape, d + 1, Len(shape)))) % shape[d]]

\* Ravel in column-major (Fortran) order
RavelF(arr) ==
    [k \in 1..Prod(arr.shape) |->
        arr.at[[d \in 1..Len(arr.shape) |->
                  ((k - 1) \div Prod(SubSeq(arr.shape, 1, d - 1))) % arr.shape[d]]]]

\* value.ravel(): the elements in row-major order
Ravel(arr) == [k \in 1..Prod(arr.shape) |-> arr.at[Unravel(k - 1, arr.shape)]]

\* flat.reshape(shape)
Reshape(flat, shape) ==
    [shape |-> shape,
     at |-> [m \in Indices(shape) |->
               flat[1 + (CHOOSE k \in 0..(Prod(shape) - 1) : Unravel(k, shape) = m)]]]


(***************************************************************************)
(* The name codec.                                                         *)
(***************************************************************************)
\* create_flat_names with the multi-indices in column-major order
create_flat_names_F(varname, shape) ==
    IF Len(shape) = 0 THEN <<varname>>
    ELSE [k \in 1..Prod(shape) |->
            varname \o <<"_", "_">>
                    \o Join([d \in 1..Len(shape) |->
                               Str(((k - 1) \div Prod(SubSeq(shape, 1, d - 1))) % shape[d])],
                            <<"_">>)]

\* _create_flat_names: [varname] for a scalar, else one name per multi-index
\* in the order np.indices enumerates them, varname__i_j
create_flat_names(varname, shape) ==
    IF Len(shape) = 0 THEN <<varname>>
    ELSE [k \in 1..Prod(shape) |->
            varname \o <<"_", "_">>
                    \o Join([d \in 1..Len(shape) |-> Str(Unravel(k - 1, shape)[d])],
                            <<"_">>)]

\* the places where '__' starts in s
Seps(s) == {i \in 1..(Len(s) - 1) : s[i] = "_" /\ s[i + 1] = "_"}

\* int(t) raises ValueError unless t is a number; here, a run of digits
IsInt(t) == Len(t) >= 1 /\ \A i \in 1..Len(t) : \E k \in 1..10 : Digits[k] = t[i]

Returned(err, val) == [err |-> err, val |-> val]

\* create_shape with split('__', 1): the name is cut at the first '__'
create_shape_first(names) ==
    IF Len(names) = 0 THEN Returned("IndexError", <<>>)
    ELSE LET last == names[Len(names)]
         IN  IF Seps(last) = {} THEN Returned("ok", <<>>)
             ELSE LET k == CHOOSE i \in Seps(last) : \A j \in Seps(last) : j >= i
                      parts == Split(SubSeq(last, k + 2, Len(last)), "_")
                  IN  IF \E i \in 1..Len(parts) : ~IsInt(parts[i])
                      THEN Returned("ValueError", <<>>)
                      ELSE Returned("ok", [i \in 1..Len(parts) |-> ParseInt(parts[i]) + 1])

\* _create_shape, lines 164-170: the last name is cut at its last '__'
\* (rsplit); when it holds none the unpacking raises ValueError, which is
\* caught, and the shape is (); else every part of the text after it, split
\* on '_', is read with int and one is added. int is outside the try, and
\* flat_names[-1] of an empty list raises IndexError.
create_shape(names) ==
    IF Len(names) = 0 THEN Returned("IndexError", <<>>)
    ELSE LET last == names[Len(names)]
         IN  IF Seps(last) = {} THEN Returned("ok", <<>>)
             ELSE LET k == CHOOSE i \in Seps(last) : \A j \in Seps(last) : j <= i
                      parts == Split(SubSeq(last, k + 2, Len(last)), "_")
                  IN  IF \E i \in 1..Len(parts) : ~IsInt(parts[i])
                      THEN Returned("ValueError", <<>>)
                      ELSE Returned("ok", [i \in 1..Len(parts) |-> ParseInt(parts[i]) + 1])

(***************************************************************************)
(* The models: the variables a Text object is built for.  var_shapes comes *)
(* from the model; varnames is the list `vars` in call order.              *)
(***************************************************************************)
VarNames == {<<"x">>, <<"y">>}

\* BaseTrace.var_shapes: x is a scalar, y has shape (2, 2)
var_shapes == [v \in VarNames |-> IF v = <<"x">> THEN <<>> ELSE <<2, 2>>]

\* the variable lists an object may be built with (never empty)
Configs == { <<<<"x">>, <<"y">>>>, <<<<"y">>, <<"x">>>>, <<<<"x">>>> }

\* Text.__init__, lines 45-46: the flat names of every variable
flat_names == [v \in VarNames |-> create_flat_names(v, var_shapes[v])]

\* setup, line 67: the header the object expects
cnames(vs) == Concat([i \in 1..Len(vs) |-> flat_names[vs[i]]])

\* the sampled point number d: a dict from variable name to array; every
\* element of every variable of every point is a different number
Point(d) ==
    [v \in VarNames |->
        [shape |-> var_shapes[v],
         at |-> [m \in Indices(var_shapes[v]) |->
                   100 * d + (IF v = <<"x">> THEN 7 ELSE 10 * (m[1] + 1) + m[2])]]]

\* self.fn(point): the arrays of the object's variables, in varnames order
fn(vs, point) == [i \in 1..Len(vs) |-> point[vs[i]]]

(***************************************************************************)
(* State.                                                                  *)
(***************************************************************************)
VARIABLES
    files,      \* the directory: chain number -> its lines, or NoFile
    written,    \* history: per chain, the <<object, draw>> of every row recorded
    varnames,   \* per object: self.varnames
    filename,   \* per object: self.filename (the chain number it names) or None
    fh,         \* per object: self._fh, the chain its open handle is on, or None
    df,         \* per object: self.df, the cached table
    phase,      \* history: Unopened, Open or Closed
    ret,        \* the last call: what was called and what it returned or raised
    runtime,    \* how the interpreter frees objects: "refcount" or "tracing"
    dropped,    \* per object: the chains of the open handles it no longer refers to
    others      \* the directory: the names of the files that no Text wrote

vars == <<files, written, varnames, filename, fh, df, phase, ret,
          runtime, dropped, others>>

NoFile == <<>>

\* self.df = None
NoDf == [loaded |-> FALSE, columns |-> <<>>, rows |-> <<>>]

\* the data rows in the whole directory
TotalRows == LET n(c) == IF files[c] = NoFile THEN 0 ELSE Len(files[c]) - 1
                 sum[S \in SUBSET Chains] ==
                     IF S = {} THEN 0
                     ELSE LET c == CHOOSE x \in S : TRUE IN n(c) + sum[S \ {c}]
             IN  sum[Chains]

Called(op, o, args, err, val) ==
    [op |-> op, obj |-> o, args |-> args, err |-> err, val |-> val]

\* Text.__init__: no file name, no handle, no table
Init ==
    /\ files = [c \in Chains |-> NoFile]
    /\ written = [c \in Chains |-> <<>>]
    /\ varnames \in {f \in [Objs -> Configs] : f[1] = <<<<"x">>, <<"y">>>>}
    /\ filename = [o \in Objs |-> None]
    /\ fh = [o \in Objs |-> None]
    /\ df = [o \in Objs |-> NoDf]
    /\ phase = [o \in Objs |-> "Unopened"]
    /\ ret = Called("idle", 0, <<>>, "ok", 0)
    /\ runtime = "refcount"
    /\ dropped = [o \in Objs |-> {}]
    /\ others = {}

\* the program is single-threaded: a method is called when the last one is over
Ready == ret.op = "idle"

\* the caller takes the result or the exception of the call
return ==
    /\ ~Ready
    /\ ret' = Called("idle", 0, <<>>, "ok", 0)
    /\ UNCHANGED <<files, written, varnames, filename, fh, df, phase>>
    /\ UNCHANGED <<runtime, dropped, others>>

(***************************************************************************)
(* Sampling methods.                                                       *)
(***************************************************************************)
\* lines 70-71: next(fh).strip().split(',') of the existing file
prev_cnames(c) == Split(files[c][1], ",")

\* self._fh = ...: the file object self._fh referred to loses its only
\* reference. A reference-counting interpreter closes it at once; otherwise it
\* stays open until the collector finds it (see finalize).
unref(o) ==
    IF fh[o] # None /\ runtime = "tracing"
    THEN [dropped EXCEPT ![o] = @ \cup {fh[o]}]
    ELSE dropped

\* setup_raise with the file opened for appending before the headers are compared
setup_raise_opened(o, c) ==
    /\ fh' = [fh EXCEPT ![o] = c]
    /\ ret' = Called("setup", o, [chain |-> c], "BackendError", 0)
    /\ UNCHANGED <<files, phase, dropped>>

\* lines 72-75: the headers differ; the file was read and closed, nothing is
\* opened and BackendError is raised
setup_raise(o, c) ==
    /\ ret' = Called("setup", o, [chain |-> c], "BackendError", 0)
    /\ UNCHANGED <<files, fh, phase, dropped>>

\* setup_append with the header written again on every setup
setup_append_header(o, c) ==
    /\ files' = [files EXCEPT ![c] = Append(@, Join(cnames(varnames[o]), <<",">>))]
    /\ fh' = [fh EXCEPT ![o] = c]
    /\ dropped' = unref(o)
    /\ phase' = [phase EXCEPT ![o] = "Open"]
    /\ ret' = Called("setup", o, [chain |-> c], "ok", 0)

\* line 76: the headers agree; open(self.filename, 'a')
setup_append(o, c) ==
    /\ fh' = [fh EXCEPT ![o] = c]
    /\ dropped' = unref(o)
    /\ phase' = [phase EXCEPT ![o] = "Open"]
    /\ ret' = Called("setup", o, [chain |-> c], "ok", 0)
    /\ UNCHANGED files

\* lines 78-79: no such file; open(self.filename, 'w') and write the header
setup_create(o, c) ==
    /\ files' = [files EXCEPT ![c] = <<Join(cnames(varnames[o]), <<",">>)>>]
    /\ fh' = [fh EXCEPT ![o] = c]
    /\ dropped' = unref(o)
    /\ phase' = [phase EXCEPT ![o] = "Open"]
    /\ ret' = Called("setup", o, [chain |-> c], "ok", 0)

\* Text.setup(draws, chain), lines 64-79
setup(o, c) ==
    /\ Ready
    /\ \A p \in Objs \ {o} : fh[p] # c        \* one writer per chain at a time
    /\ filename' = [filename EXCEPT ![o] = c]
    /\ IF files[c] # NoFile
       THEN IF prev_cnames(c) # cnames(varnames[o])
            THEN setup_raise(o, c)
            ELSE setup_append(o, c)
       ELSE setup_create(o, c)
    /\ UNCHANGED <<written, varnames, df, runtime, others>>

\* lines 89-92: the text of every value, variable by variable, each ravelled
columns(vs, point) ==
    LET vals == fn(vs, point)
    IN  Concat([i \in 1..Len(vs) |->
                  [k \in 1..Prod(vals[i].shape) |-> Str(Ravel(vals[i])[k])]])

\* record_unopened with the file of self.filename reopened when there is no handle
record_reopen(o, d) ==
    IF filename[o] # None /\ files[filename[o]] # NoFile
    THEN /\ files' = [files EXCEPT ![filename[o]] =
                        Append(@, Join(columns(varnames[o], Point(d)), <<",">>))]
         /\ written' = [written EXCEPT ![filename[o]] = Append(@, <<o, d>>)]
         /\ ret' = Called("record", o, [draw |-> d], "ok", 0)
    ELSE /\ ret' = Called("record", o, [draw |-> d], "AttributeError", 0)
         /\ UNCHANGED <<files, written>>

\* line 93 with self._fh = None: None has no write
record_unopened(o, d) ==
    /\ ret' = Called("record", o, [draw |-> d], "AttributeError", 0)
    /\ UNCHANGED <<files, written>>

\* record_write on a handle that writes after the header instead of at the end
record_rewrite(o, d) ==
    /\ files' = [files EXCEPT ![fh[o]] =
                   <<@[1], Join(columns(varnames[o], Point(d)), <<",">>)>>]
    /\ written' = [written EXCEPT ![fh[o]] = <<<<o, d>>>>]
    /\ ret' = Called("record", o, [draw |-> d], "ok", 0)

\* line 93: self._fh.write(','.join(columns) + '\n')
record_write(o, d) ==
    /\ files' = [files EXCEPT ![fh[o]] =
                   Append(@, Join(columns(varnames[o], Point(d)), <<",">>))]
    /\ written' = [written EXCEPT ![fh[o]] = Append(@, <<o, d>>)]
    /\ ret' = Called("record", o, [draw |-> d], "ok", 0)

\* Text.record(point), lines 89-93
record(o, d) ==
    /\ Ready
    /\ IF fh[o] = None
       THEN record_unopened(o, d)
       ELSE TotalRows < MaxRows /\ record_write(o, d)
    /\ UNCHANGED <<varnames, filename, fh, df, phase, runtime, dropped, others>>

\* line 96 with self._fh = None: None has no close
close_unopened(o) ==
    /\ ret' = Called("close", o, <<>>, "AttributeError", 0)
    /\ UNCHANGED <<fh, phase>>

\* close_handle without line 97: the closed handle is kept
close_keep(o) ==
    /\ phase' = [phase EXCEPT ![o] = "Closed"]
    /\ ret' = Called("close", o, <<>>, "ok", 0)
    /\ UNCHANGED fh

\* lines 96-97: close the handle and forget it
close_handle(o) ==
    /\ fh' = [fh EXCEPT ![o] = None]
    /\ phase' = [phase EXCEPT ![o] = "Closed"]
    /\ ret' = Called("close", o, <<>>, "ok", 0)

\* Text.close(), lines 96-97
close(o) ==
    /\ Ready
    /\ IF fh[o] = None THEN close_unopened(o) ELSE close_handle(o)
    /\ UNCHANGED <<files, written, varnames, filename, df, runtime, dropped, others>>

(***************************************************************************)
(* Selection methods.                                                      *)
(***************************************************************************)
\* pd.read_csv of a chain file: the header names the columns, every other
\* line is a row of numbers (the header's names are distinct here)
read_csv(lines) ==
    [loaded |-> TRUE,
     columns |-> Split(lines[1], ","),
     rows |-> [i \in 1..(Len(lines) - 1) |->
                 LET fields == Split(lines[i + 1], ",")
                 IN  [j \in 1..Len(fields) |-> ParseInt(fields[j])]]]

\* load_df without the test of line 102: the file is read on every call
load_df_again(o) ==
    IF filename[o] = None THEN [df |-> df[o], err |-> "ValueError"]
    ELSE IF files[filename[o]] = NoFile THEN [df |-> df[o], err |-> "IOError"]
    ELSE [df |-> read_csv(files[filename[o]]), err |-> "ok"]

\* Text._load_df, lines 102-103: the table after the call, and what it raised
load_df(o) ==
    IF df[o].loaded THEN [df |-> df[o], err |-> "ok"]
    ELSE IF filename[o] = None THEN [df |-> df[o], err |-> "ValueError"]
    ELSE IF files[filename[o]] = NoFile THEN [df |-> df[o], err |-> "IOError"]
    ELSE [df |-> read_csv(files[filename[o]]), err |-> "ok"]

\* whether table[names] finds every name among the columns
HasColumns(table, names) ==
    \A j \in 1..Len(names) : \E i \in 1..Len(table.columns) : table.columns[i] = names[j]

\* Select by position: the first columns of the table, as many as names
SelectFirst(table, names) ==
    [r \in 1..Len(table.rows) |-> [j \in 1..Len(names) |-> table.rows[r][j]]]

\* table[names]: the rows cut to the named columns, in the order of `names`
Select(table, names) ==
    LET col(nm) == CHOOSE i \in 1..Len(table.columns) : table.columns[i] = nm
    IN  [r \in 1..Len(table.rows) |->
            [j \in 1..Len(names) |-> table.rows[r][col(names[j])]]]

\* SliceRows with a negative start or step taken as 0 and 1
SliceRowsClamped(n, start, step) ==
    LET first == Min(Max(start, 0), n)
        by == Max(step, 1)
        count == IF first >= n THEN 0 ELSE (n - first + by - 1) \div by
    IN  [j \in 1..count |-> first + (j - 1) * by]

\* the row numbers (from 0) a[start::step] takes of n rows, step # 0
SliceRows(n, start, step) ==
    IF step > 0
    THEN LET first == IF start < 0 THEN Max(start + n, 0) ELSE Min(start, n)
             count == IF first >= n THEN 0 ELSE (n - first + step - 1) \div step
         IN  [j \in 1..count |-> first + (j - 1) * step]
    ELSE LET first == IF start < 0 THEN Max(start + n, 0 - 1) ELSE Min(start, n - 1)
             count == IF first < 0 THEN 0 ELSE (first \div (0 - step)) + 1
         IN  [j \in 1..count |-> first + (j - 1) * step]

\* vals[burn::thin] along the first axis
SliceArray(arr, burn, thin) ==
    LET rows == SliceRows(arr.shape[1], burn, thin)
        shape == <<Len(rows)>> \o Tail(arr.shape)
    IN  [shape |-> shape,
         at |-> [m \in Indices(shape) |->
                   arr.at[[d \in 1..Len(shape) |->
                             IF d = 1 THEN rows[m[1] + 1] ELSE m[d]]]]]

\* get_values, lines 125-127: the columns of varname as an array of shape
\* (rows,) + var_shapes[varname]
values_of(table, varname) ==
    Reshape(Concat(Select(table, flat_names[varname])),
            <<Len(table.rows)>> \o var_shapes[varname])

\* Text.__len__, lines 106-109
length(o) ==
    /\ Ready
    /\ IF filename[o] = None
       THEN /\ ret' = Called("len", o, <<>>, "ok", 0)
            /\ UNCHANGED df
       ELSE LET l == load_df(o)
            IN  /\ df' = [df EXCEPT ![o] = l.df]
                /\ ret' = Called("len", o, <<>>, l.err,
                                 IF l.err = "ok" THEN Len(l.df.rows) ELSE 0)
    /\ UNCHANGED <<files, written, varnames, filename, fh, phase,
                      runtime, dropped, others>>

\* Text.get_values(varname, burn, thin), lines 124-128
get_values(o, varname, burn, thin) ==
    LET l == load_df(o)
        args == [varname |-> varname, burn |-> burn, thin |-> thin]
        known == \E i \in 1..Len(varnames[o]) : varnames[o][i] = varname
        err == IF l.err # "ok" THEN l.err
               ELSE IF ~known \/ ~HasColumns(l.df, flat_names[varname]) THEN "KeyError"
               ELSE IF thin = 0 THEN "ValueError"
               ELSE "ok"
    IN  /\ Ready
        /\ df' = [df EXCEPT ![o] = l.df]
        /\ ret' = Called("get_values", o, args, err,
                         IF err = "ok"
                         THEN SliceArray(values_of(l.df, varname), burn, thin)
                         ELSE 0)
        /\ UNCHANGED <<files, written, varnames, filename, fh, phase,
                      runtime, dropped, others>>

\* iloc with idx counted from the start only
iloc_forward(n, idx) == IF 0 <= idx /\ idx < n THEN idx + 1 ELSE 0

\* .iloc[idx] on n rows: the row taken (from 1), or 0 when idx is out of bounds
iloc(n, idx) ==
    IF 0 - n <= idx /\ idx < n
    THEN (IF idx < 0 THEN n + idx + 1 ELSE idx + 1)
    ELSE 0

\* Text.point(idx), lines 137-143
point(o, idx) ==
    LET l == load_df(o)
        n == Len(l.df.rows)
        has(i) == HasColumns(l.df, flat_names[varnames[o][i]])
        row == iloc(n, idx)
        err == IF l.err # "ok" THEN l.err
               ELSE IF ~has(1) THEN "KeyError"
               ELSE IF row = 0 THEN "IndexError"
               ELSE IF \E i \in 1..Len(varnames[o]) : ~has(i) THEN "KeyError"
               ELSE "ok"
        pt == [v \in {varnames[o][i] : i \in 1..Len(varnames[o])} |->
                 Reshape(Select(l.df, flat_names[v])[row], var_shapes[v])]
    IN  /\ Ready
        /\ df' = [df EXCEPT ![o] = l.df]
        /\ ret' = Called("point", o, [idx |-> idx], err, IF err = "ok" THEN pt ELSE 0)
        /\ UNCHANGED <<files, written, varnames, filename, fh, phase,
                      runtime, dropped, others>>

(***************************************************************************)
(* The specification.                                                      *)
(***************************************************************************)
\* the objects that read the files back
Readers == {o \in Objs : o # 1}

\* two objects write on two chains, and the reader counts the rows
Next ==
    \/ \E o \in Objs, c \in Chains : setup(o, c)
    \/ \E o \in Objs, d \in Draws : record(o, d)
    \/ \E o \in Objs : close(o)
    \/ \E o \in Readers : length(o)
    \/ return

Spec == Init /\ [][Next]_vars

\* the arguments tried for burn, thin and idx
Burns == (0 - 1)..MaxRows
Thins == (0 - 1)..2
Idxs == (0 - MaxRows - 1)..MaxRows

\* a reader alone writes its chains and reads them back
NextRead ==
    \/ \E o \in Readers, c \in Chains : setup(o, c)
    \/ \E o \in Readers, d \in Draws : record(o, d)
    \/ \E o \in Readers : close(o)
    \/ \E o \in Readers : length(o)
    \/ \E o \in Readers, v \in VarNames, burn \in Burns, thin \in Thins :
          get_values(o, v, burn, thin)
    \/ \E o \in Readers, idx \in Idxs : point(o, idx)
    \/ return

SpecRead == Init /\ [][NextRead]_vars

(***************************************************************************)
(* The name codec on its own: names and shapes of any model.               *)
(***************************************************************************)
MaxNameLen == 4
MaxRank == 2
MaxDim == 2

\* the characters of the names: a letter, a digit and the underscore
NameChars == {"x", "0", "_"}
Names == UNION {[1..n -> NameChars] : n \in 1..MaxNameLen}
Shapes == UNION {[1..r -> 0..MaxDim] : r \in 0..MaxRank}

\* _create_flat_names(varname, shape)
flat_names_of(v, shape) ==
    /\ Ready
    /\ ret' = Called("create_flat_names", 0, [varname |-> v, shape |-> shape],
                     "ok", create_flat_names(v, shape))
    /\ UNCHANGED <<files, written, varnames, filename, fh, df, phase,
                   runtime, dropped, others>>

\* _create_shape(_create_flat_names(varname, shape))
shape_of(v, shape) ==
    /\ Ready
    /\ LET r == create_shape(create_flat_names(v, shape))
       IN  ret' = Called("create_shape", 0, [varname |-> v, shape |-> shape],
                         r.err, r.val)
    /\ UNCHANGED <<files, written, varnames, filename, fh, df, phase,
                   runtime, dropped, others>>

\* the header of a model of two variables: self.flat_names of lines 45-46
\* and cnames of line 67, the flat names variable after variable
header_of(v, shape, w, wshape) ==
    /\ Ready
    /\ v # w
    /\ ret' = Called("cnames", 0,
                     [varnames |-> <<v, w>>, shapes |-> <<shape, wshape>>],
                     "ok", create_flat_names(v, shape) \o create_flat_names(w, wshape))
    /\ UNCHANGED <<files, written, varnames, filename, fh, df, phase,
                   runtime, dropped, others>>

\* the header is built for a first variable with a one-letter name and for
\* shapes of at most one dimension
NextCodec ==
    \/ Ready /\ \E v \in Names, shape \in Shapes : flat_names_of(v, shape)
    \/ Ready /\ \E v \in Names, shape \in Shapes : shape_of(v, shape)
    \/ Ready /\ \E v \in {n \in Names : Len(n) = 1}, w \in Names,
                   shape \in {sh \in Shapes : Len(sh) <= 1},
                   wshape \in {sh \in Shapes : Len(sh) <= 1} :
                     header_of(v, shape, w, wshape)
    \/ return

SpecCodec == Init /\ [][NextCodec]_vars

(***************************************************************************)
(* The handles of a writer, on either kind of interpreter.                 *)
(***************************************************************************)
\* the collector finds a file object nothing refers to and closes it
finalize(o, c) ==
    /\ Ready
    /\ c \in dropped[o]
    /\ dropped' = [dropped EXCEPT ![o] = @ \ {c}]
    /\ UNCHANGED <<files, written, varnames, filename, fh, df, phase, ret,
                   runtime, others>>

\* Text.__init__ as in Init; the interpreter may free by reference count
\* (a replaced file object is closed at once) or by tracing (closed later)
InitHandles ==
    /\ files = [c \in Chains |-> NoFile]
    /\ written = [c \in Chains |-> <<>>]
    /\ varnames \in {f \in [Objs -> Configs] : f[1] = <<<<"x">>, <<"y">>>>}
    /\ filename = [o \in Objs |-> None]
    /\ fh = [o \in Objs |-> None]
    /\ df = [o \in Objs |-> NoDf]
    /\ phase = [o \in Objs |-> "Unopened"]
    /\ ret = Called("idle", 0, <<>>, "ok", 0)
    /\ runtime \in {"refcount", "tracing"}
    /\ dropped = [o \in Objs |-> {}]
    /\ others = {}

NextHandles ==
    \/ \E o \in Objs, c \in Chains : setup(o, c)
    \/ \E o \in Objs, d \in Draws : record(o, d)
    \/ \E o \in Objs : close(o)
    \/ \E o \in Objs, c \in Chains : finalize(o, c)
    \/ return

SpecHandles == InitHandles /\ [][NextHandles]_vars

(***************************************************************************)
(* The directory store: dump writes the chains of an in-memory trace, load *)
(* finds the chain files of a directory.                                   *)
(***************************************************************************)
\* 'chain-{}.csv'.format(chain), line 220
ChainFile(c) == <<"c", "h", "a", "i", "n", "-">> \o Str(c) \o <<".", "c", "s", "v">>

\* names of files that no Text and no dump wrote
OtherNames == { <<"c", "h", "a", "i", "n", "-", "0", ".", "t", "x", "t">>,
                <<"c", "h", "a", "i", "n", "-", "a", "b", "c", ".", "c", "s", "v">> }

\* the names of the files in the directory
Listing == {ChainFile(c) : c \in {k \in Chains : files[k] # NoFile}} \cup others

\* glob('chain-*.csv'), line 187: * stands for any text, the empty one too
Globbed(n) ==
    /\ Len(n) >= 10
    /\ SubSeq(n, 1, 6) = <<"c", "h", "a", "i", "n", "-">>
    /\ SubSeq(n, Len(n) - 3, Len(n)) = <<".", "c", "s", "v">>

\* os.path.splitext(f)[0].rsplit('-', 1)[1], line 191: the name without its
\* extension, from its last '-' on
ChainText(n) ==
    LET root == SubSeq(n, 1, Len(n) - 4)
        k == CHOOSE i \in 1..Len(root) :
                 root[i] = "-" /\ \A j \in (i + 1)..Len(root) : root[j] # "-"
    IN  SubSeq(root, k + 1, Len(root))

\* the chain file that has this name
FileOf(n) == CHOOSE c \in Chains : ChainFile(c) = n

\* the MultiTrace of NDArray traces given to dump: its variables, and for
\* each of its chains the draws sampled, all chains equally long; the draws
\* of a chain differ from one another and from those of the next chain
Traces ==
    {[varnames |-> vs,
      draws |-> [c \in K |-> [i \in 1..n |-> (c + i) % Cardinality(Draws)]]] :
        vs \in Configs, K \in SUBSET Chains, n \in 0..MaxRows}

\* the `chains` argument of dump: None, or a list of different chain numbers
Requests ==
    {[all |-> TRUE, ids |-> <<>>]}
        \cup {[all |-> FALSE, ids |-> ids] :
                 ids \in {q \in UNION {[1..n -> Chains] : n \in 0..Cardinality(Chains)} :
                            \A i, j \in 1..Len(q) : i # j => q[i] # q[j]}}

\* trace.chains: the chain numbers of the trace in increasing order
RECURSIVE Sorted(_)
Sorted(S) == IF S = {} THEN <<>>
             ELSE LET least == CHOOSE x \in S : \A y \in S : x <= y
                  IN  <<least>> \o Sorted(S \ {least})

\* trace.var_shapes.items(), line 241: the variables in the order in which
\* the mapping gives them, which the language does not tie to trace.varnames
Orders(vs) ==
    {q \in [1..Len(vs) -> {vs[i] : i \in 1..Len(vs)}] :
        \A i, j \in 1..Len(vs) : i # j => q[i] # q[j]}

\* trace_to_df with reshape filling the columns in column-major order
trace_to_df_F(draws, order) ==
    [loaded |-> TRUE,
     columns |-> Concat([i \in 1..Len(order) |-> flat_names[order[i]]]),
     rows |-> [r \in 1..Len(draws) |->
                 Concat([i \in 1..Len(order) |-> RavelF(Point(draws[r])[order[i]])])]]

\* _trace_to_df, lines 240-248: for every variable of var_shapes.items() the
\* values of all draws, one row per draw (as they are for one dimension,
\* else reshaped to len(trace) rows, row-major), under the flat names of the
\* variable; the variables' tables side by side
trace_to_df(draws, order) ==
    [loaded |-> TRUE,
     columns |-> Concat([i \in 1..Len(order) |-> flat_names[order[i]]]),
     rows |-> [r \in 1..Len(draws) |->
                 Concat([i \in 1..Len(order) |->
                           LET val == Point(draws[r])[order[i]]
                           IN  IF Len(val.shape) = 1
                               THEN [k \in 1..val.shape[1] |-> val.at[<<k - 1>>]]
                               ELSE Ravel(val)])]]

\* df.to_csv(filename, index=False), line 222: the header line and one line
\* per row
to_csv(table) ==
    <<Join(table.columns, <<",">>)>>
        \o [r \in 1..Len(table.rows) |->
               Join([j \in 1..Len(table.rows[r]) |-> Str(table.rows[r][j])], <<",">>)]

\* dump(name, trace, chains), lines 213-222: the chains asked for, all of
\* the trace for None; chains[0] of an empty list raises IndexError; every
\* chain in turn is written over whatever file has its name, until one is
\* not in the trace (KeyError). The store is dumped to before it is loaded.
dump(tr, req, order) ==
    LET chains == IF req.all THEN Sorted(DOMAIN tr.draws) ELSE req.ids
        done == CHOOSE k \in 0..Len(chains) :
                    /\ \A i \in 1..k : chains[i] \in DOMAIN tr.draws
                    /\ k < Len(chains) => chains[k + 1] \notin DOMAIN tr.draws
        dumped == {chains[i] : i \in 1..done}
        err == IF Len(chains) = 0 THEN "IndexError"
               ELSE IF done < Len(chains) THEN "KeyError"
               ELSE "ok"
    IN  /\ Ready
        /\ \A o \in Objs : filename[o] = None
        /\ order \in Orders(tr.varnames)
        /\ files' = [c \in Chains |->
                       IF c \in dumped THEN to_csv(trace_to_df(tr.draws[c], order))
                       ELSE files[c]]
        /\ written' = [c \in Chains |->
                         IF c \in dumped
                         THEN [i \in 1..Len(tr.draws[c]) |-> <<0, tr.draws[c][i]>>]
                         ELSE written[c]]
        /\ ret' = Called("dump", 0, [trace |-> tr, chains |-> req], err, 0)
        /\ UNCHANGED <<varnames, filename, fh, df, phase, runtime, dropped, others>>

\* load(name, model), lines 187-196: for every name that glob gives, in any
\* order, int of the text after the last '-' (ValueError when it is not a
\* number: nothing is returned) and a new Text of the model with that chain
\* and that file name, nothing read. Objs are the objects of the last load.
load(vs) ==
    LET globbed == {n \in Listing : Globbed(n)}
    IN  /\ Ready
        /\ IF \E n \in globbed : ~IsInt(ChainText(n))
           THEN /\ ret' = Called("load", 0, [model |-> vs], "ValueError", {})
                /\ UNCHANGED <<varnames, filename, fh, df, phase>>
           ELSE \E obj \in [globbed -> Objs] :
                  /\ \A n1, n2 \in globbed : n1 # n2 => obj[n1] # obj[n2]
                  /\ varnames' = [o \in Objs |-> vs]
                  /\ filename' = [o \in Objs |->
                                    IF \E n \in globbed : obj[n] = o
                                    THEN FileOf(CHOOSE n \in globbed : obj[n] = o)
                                    ELSE None]
                  /\ fh' = [o \in Objs |-> None]
                  /\ df' = [o \in Objs |-> NoDf]
                  /\ phase' = [o \in Objs |-> "Unopened"]
                  /\ ret' = Called("load", 0, [model |-> vs], "ok",
                                   {[obj |-> obj[n],
                                     chain |-> ParseInt(ChainText(n)),
                                     filename |-> n] : n \in globbed})
        /\ UNCHANGED <<files, written, runtime, dropped, others>>

\* an empty directory, or one that holds some files of other programs
InitStore ==
    /\ files = [c \in Chains |-> NoFile]
    /\ written = [c \in Chains |-> <<>>]
    /\ varnames = [o \in Objs |-> <<<<"x">>, <<"y">>>>]
    /\ filename = [o \in Objs |-> None]
    /\ fh = [o \in Objs |-> None]
    /\ df = [o \in Objs |-> NoDf]
    /\ phase = [o \in Objs |-> "Unopened"]
    /\ ret = Called("idle", 0, <<>>, "ok", 0)
    /\ runtime = "refcount"
    /\ dropped = [o \in Objs |-> {}]
    /\ others \in SUBSET OtherNames

\* the loaded chains are read whole: burn = 0 and thin = 1, the defaults
NextStore ==
    \/ Ready /\ \E tr \in Traces, req \in Requests :
                   \E order \in Orders(tr.varnames) : dump(tr, req, order)
    \/ \E vs \in Configs : load(vs)
    \/ \E o \in Objs : length(o)
    \/ \E o \in Objs, v \in VarNames : get_values(o, v, 0, 1)
    \/ return

SpecStore == InitStore /\ [][NextStore]_vars

(***************************************************************************)
(* What the claims say, stated without the operators of the methods.       *)
(***************************************************************************)
\* the column name of element m of variable v: v for a scalar, else v__i_j
NameOf(v, m) ==
    IF Len(m) = 0 THEN v
    ELSE v \o <<"_", "_">> \o Join([d \in 1..Len(m) |-> Str(m[d])], <<"_">>)

RECURSIVE Rank(_, _)
\* the row-major position (from 0) of multi-index m in an array of this shape
Rank(m, shape) ==
    IF Len(shape) = 0 THEN 0
    ELSE Rank(SubSeq(m, 1, Len(m) - 1), SubSeq(shape, 1, Len(shape) - 1))
              * shape[Len(shape)] + m[Len(m)]

RECURSIVE Before(_, _)
\* the number of columns of the variables before the i-th
Before(vs, i) == IF i = 1 THEN 0
                 ELSE Before(vs, i - 1) + Prod(var_shapes[vs[i - 1]])

\* the call that has just returned
Did(op, o) == ret.op = op /\ ret.obj = o
Does(op, o) == Ready /\ ret'.op = op /\ ret'.obj = o

(***************************************************************************)
(* C1.  setup on an existing chain file whose first line, split on ',',    *)
(* differs from the expected header raises BackendError (SchemaMismatch),  *)
(* leaves every file as it was, opens nothing, and leaves the object       *)
(* without a handle on that file.                                          *)
(***************************************************************************)
C1_Mismatch(o, c) ==
    /\ files[c] # NoFile
    /\ Split(files[c][1], ",") # cnames(varnames[o])

C1_SchemaMismatch ==
    [][\A o \in Objs, c \in Chains :
          (Does("setup", o) /\ ret'.args.chain = c /\ C1_Mismatch(o, c))
             => /\ ret'.err = "BackendError"
                /\ files' = files
                /\ fh' = fh
                /\ fh'[o] # c]_vars

\* a setup has failed on a file that holds a row, written by the other object
C1_Witness ==
    \E o \in Objs :
        /\ Did("setup", o) /\ ret.err = "BackendError"
        /\ Len(files[ret.args.chain]) >= 2
        /\ fh[o] = None

(***************************************************************************)
(* C2.  Reopening an existing chain file with the same variables in a      *)
(* fresh writer leaves the file as it is (the header is not written        *)
(* again, the old rows stay); every record then adds one line after them;  *)
(* and once the file is closed, the length of an object that has not read  *)
(* the file yet is the number of rows recorded by the old and the new      *)
(* writer together, the file holding one header line.                      *)
(***************************************************************************)
RowsBy(c, w) == Cardinality({i \in 1..Len(written[c]) : written[c][i][1] = w})

C2_ReopenAppends ==
    [][\A o \in Objs, c \in Chains :
          /\ (Does("setup", o) /\ ret'.args.chain = c /\ ret'.err = "ok"
                 /\ files[c] # NoFile)
                => files'[c] = files[c]
          /\ (Does("record", o) /\ ret'.err = "ok" /\ fh[o] = c)
                => /\ Len(files'[c]) = Len(files[c]) + 1
                   /\ SubSeq(files'[c], 1, Len(files[c])) = files[c]
          /\ (Does("len", o) /\ filename[o] = c /\ ~df[o].loaded
                 /\ \A p \in Objs : fh[p] # c)
                => /\ ret'.err = "ok"
                   /\ ret'.val = RowsBy(c, 1) + RowsBy(c, 2)
                   /\ Len(files[c]) = 1 + ret'.val
                   /\ \A i \in 2..Len(files[c]) : files[c][i] # files[c][1]
      ]_vars

\* the length of a closed file that two writers have recorded rows in
C2_Witness ==
    \E o \in Objs, c \in Chains :
        /\ Did("len", o) /\ filename[o] = c /\ ret.val = 2
        /\ RowsBy(c, 1) = 1 /\ RowsBy(c, 2) = 1
        /\ written[c][2][1] = o
        /\ \A p \in Objs : fh[p] = None

(***************************************************************************)
(* C3.  A record on an open writer adds exactly one line at the end of the *)
(* file its handle is on and changes no other file; the line has as many   *)
(* fields as the header, and the field in the column of element m of       *)
(* variable v (variables in varnames order, elements in row-major order)   *)
(* is the text of that element of the point.                               *)
(***************************************************************************)
C3_RecordLine ==
    [][\A o \in Objs :
          (Does("record", o) /\ fh[o] # None)
             => LET c == fh[o]
                    vs == varnames[o]
                    fields == Split(files'[c][Len(files'[c])], ",")
                    pt == Point(ret'.args.draw)
                IN  /\ ret'.err = "ok"
                    /\ Len(files'[c]) = Len(files[c]) + 1
                    /\ SubSeq(files'[c], 1, Len(files[c])) = files[c]
                    /\ \A b \in Chains \ {c} : files'[b] = files[b]
                    /\ Len(fields) = Len(Split(files[c][1], ","))
                    /\ \A i \in 1..Len(vs) : \A m \in Indices(var_shapes[vs[i]]) :
                          LET k == Before(vs, i) + Rank(m, var_shapes[vs[i]]) + 1
                          IN  /\ fields[k] = Str(pt[vs[i]].at[m])
                              /\ Split(files[c][1], ",")[k] = NameOf(vs[i], m)
      ]_vars

\* a second row has been recorded in a file with the columns of y
C3_Witness ==
    \E o \in Objs :
        /\ Did("record", o) /\ ret.err = "ok"
        /\ Len(files[fh[o]]) = 3
        /\ Len(varnames[o]) = 2

(***************************************************************************)
(* C6.  close() may be called again on a writer that setup opened and      *)
(* close closed: the call does not fail.                                   *)
(***************************************************************************)
C6_CloseIdempotent ==
    \A o \in Objs : (Did("close", o) /\ phase[o] = "Closed") => ret.err = "ok"

(***************************************************************************)
(* C7.  As claimed: a Closed writer never holds an open handle again.      *)
(***************************************************************************)
C7_ClosedTerminal ==
    [][\A o \in Objs : phase[o] = "Closed" => fh'[o] = None]_vars

(***************************************************************************)
(* C7, amended.  The writer is Open exactly while it holds a handle; only  *)
(* a successful setup takes it out of Unopened or out of Closed, each time *)
(* to Open (Closed is not terminal); only a successful close takes it out  *)
(* of Open, to Closed; record and failed calls change nothing of it.       *)
(***************************************************************************)
C7_Lifecycle ==
    [][\A o \in Objs :
          /\ (phase'[o] = "Open") <=> (fh'[o] # None)
          /\ (phase[o] # "Open" /\ phase'[o] # phase[o])
                => /\ phase'[o] = "Open"
                   /\ Does("setup", o) /\ ret'.err = "ok"
          /\ (phase[o] = "Open" /\ phase'[o] # phase[o])
                => /\ phase'[o] = "Closed"
                   /\ Does("close", o) /\ ret'.err = "ok"
          /\ (fh[o] = None) # (fh'[o] = None)
                => phase'[o] # phase[o]
      ]_vars

\* a writer that recorded a row has been closed
C7_Witness ==
    \E o \in Objs, c \in Chains :
        /\ Did("close", o) /\ ret.err = "ok"
        /\ phase[o] = "Closed" /\ fh[o] = None
        /\ RowsBy(c, o) >= 1

(***************************************************************************)
(* C8.  record on a writer without a handle (Unopened, or Closed) raises   *)
(* an error and leaves every file as it was: none is created or changed.   *)
(***************************************************************************)
C8_RecordNeedsOpen ==
    [][\A o \in Objs :
          (Does("record", o) /\ phase[o] # "Open")
             => ret'.err # "ok" /\ files' = files]_vars

\* a record has failed on a closed writer whose file is there
C8_Witness ==
    \E o \in Objs :
        /\ Did("record", o) /\ ret.err = "AttributeError"
        /\ phase[o] = "Closed"
        /\ files[filename[o]] # NoFile

(***************************************************************************)
(* Reading back.                                                           *)
(***************************************************************************)
\* the number in row r (from 1) of the table, in the column of this name
Cell(table, r, name) ==
    table.rows[r][CHOOSE i \in 1..Len(table.columns) : table.columns[i] = name]

\* whether v is one of the object's variables
Has(o, v) == \E i \in 1..Len(varnames[o]) : varnames[o][i] = v

(***************************************************************************)
(* C4.  When N rows have been recorded in a chain file and no writer has   *)
(* it open, get_values(varname, burn, thin) with burn >= 0 and thin >= 1   *)
(* of an object that reads the file for the first time returns an array of *)
(* shape (k,) + s, k the number of the rows burn, burn + thin, ... below   *)
(* N, whose j-th entry is the value recorded for varname in row            *)
(* burn + j * thin.                                                        *)
(***************************************************************************)
C4_BurnThin ==
    [][\A o \in Objs :
          (/\ Does("get_values", o) /\ ret'.err = "ok"
           /\ ~df[o].loaded
           /\ \A p \in Objs : fh[p] # filename[o]
           /\ ret'.args.burn >= 0 /\ ret'.args.thin >= 1)
             => LET c == filename[o]
                    v == ret'.args.varname
                    burn == ret'.args.burn
                    thin == ret'.args.thin
                    N == Len(written[c])
                    k == Cardinality({i \in burn..(N - 1) : (i - burn) % thin = 0})
                    shape == <<k>> \o var_shapes[v]
                IN  /\ ret'.val.shape = shape
                    /\ DOMAIN ret'.val.at = Indices(shape)
                    /\ \A j \in 0..(k - 1) : \A m \in Indices(var_shapes[v]) :
                          ret'.val.at[<<j>> \o m]
                             = Point(written[c][burn + j * thin + 1][2])[v].at[m]
      ]_vars

\* get_values of y has skipped the first of two recorded rows
C4_Witness ==
    \E o \in Objs :
        /\ Did("get_values", o) /\ ret.err = "ok"
        /\ ret.args.varname = <<"y">> /\ ret.args.burn = 1 /\ ret.args.thin = 2
        /\ Len(written[filename[o]]) = 2
        /\ ret.val.shape = <<1, 2, 2>>
        /\ fh[o] = None

(***************************************************************************)
(* C5.  The table of an object goes from unloaded to loaded only: it is    *)
(* set by a __len__, get_values or point of that object, to the content    *)
(* of its file at that moment, and never changes afterwards; a later       *)
(* __len__ returns the rows of the table, whatever the file holds by then. *)
(***************************************************************************)
C5_LoadOnce ==
    [][\A o \in Objs :
          /\ df[o].loaded => df'[o] = df[o]
          /\ df'[o] # df[o]
                => /\ Ready /\ ret'.obj = o
                   /\ ret'.op \in {"len", "get_values", "point"}
                   /\ df'[o].loaded
                   /\ df'[o].columns = Split(files[filename[o]][1], ",")
                   /\ Len(df'[o].rows) = Len(files[filename[o]]) - 1
          /\ (Does("len", o) /\ df[o].loaded)
                => ret'.err = "ok" /\ ret'.val = Len(df[o].rows)
      ]_vars

\* __len__ has returned fewer rows than the file the table was read from holds
C5_Witness ==
    \E o \in Objs :
        /\ Did("len", o) /\ ret.err = "ok"
        /\ fh[o] # None /\ fh[o] = filename[o]
        /\ \A c \in Chains \ {fh[o]} : files[c] = NoFile
        /\ ret.val = 1 /\ Len(written[filename[o]]) = 2
        /\ df[o].columns = Split(files[filename[o]][1], ",")

(***************************************************************************)
(* C9.  On a loaded table of n rows, point(idx) with -n <= idx < n         *)
(* returns for every variable of the object the array of its shape whose   *)
(* element m is the number in the column of that element, in row idx       *)
(* (row n + idx for a negative idx); any other idx raises IndexError.      *)
(***************************************************************************)
C9_Point ==
    [][\A o \in Objs :
          (Does("point", o) /\ df'[o].loaded)
             => LET n == Len(df'[o].rows)
                    idx == ret'.args.idx
                    r == IF idx < 0 THEN n + idx + 1 ELSE idx + 1
                IN  IF 0 - n <= idx /\ idx < n
                    THEN /\ ret'.err = "ok"
                         /\ DOMAIN ret'.val = {v \in VarNames : Has(o, v)}
                         /\ \A v \in DOMAIN ret'.val :
                               /\ ret'.val[v].shape = var_shapes[v]
                               /\ DOMAIN ret'.val[v].at = Indices(var_shapes[v])
                               /\ \A m \in Indices(var_shapes[v]) :
                                     ret'.val[v].at[m] = Cell(df'[o], r, NameOf(v, m))
                    ELSE ret'.err = "IndexError"
      ]_vars

\* point(-1) has returned the last of two rows
C9_Witness ==
    \E o \in Objs :
        /\ Did("point", o) /\ ret.err = "ok" /\ ret.args.idx = 0 - 1
        /\ Len(df[o].rows) = 2
        /\ \A v \in DOMAIN ret.val : \A m \in Indices(var_shapes[v]) :
              ret.val[v].at[m] = Point(written[filename[o]][2][2])[v].at[m]
        /\ written[filename[o]][1][2] # written[filename[o]][2][2]

(***************************************************************************)
(* C10.  As claimed: get_values with thin <= 0 or burn < 0 fails (here on  *)
(* a chain whose writer has been closed).                                  *)
(***************************************************************************)
C10_Rejected ==
    \A o \in Objs :
        (/\ Did("get_values", o) /\ phase[o] = "Closed"
         /\ (ret.args.thin <= 0 \/ ret.args.burn < 0))
           => ret.err # "ok"

(***************************************************************************)
(* C10, amended.  On a loaded table with the columns of varname,           *)
(* get_values with thin = 0 raises ValueError and returns no array; with   *)
(* any other thin and any burn, negative ones too, it returns the rows     *)
(* that the slice [burn::thin] takes: a negative burn counts from the last *)
(* row, a negative thin walks back from row burn to the first row.         *)
(***************************************************************************)
C10_Slice ==
    [][\A o \in Objs :
          (/\ Does("get_values", o) /\ df'[o].loaded
           /\ Has(o, ret'.args.varname))
             => LET v == ret'.args.varname
                    burn == ret'.args.burn
                    thin == ret'.args.thin
                    n == Len(df'[o].rows)
                    from == IF burn < 0 THEN n + burn ELSE burn
                    first == IF thin > 0 THEN Max(from, 0) ELSE Min(from, n - 1)
                    taken == {i \in 0..(n - 1) :
                                 IF thin > 0
                                 THEN i >= first /\ (i - first) % thin = 0
                                 ELSE i <= first /\ (first - i) % (0 - thin) = 0}
                    k == Cardinality(taken)
                IN  IF thin = 0
                    THEN ret'.err = "ValueError" /\ ret'.val = 0
                    ELSE /\ ret'.err = "ok"
                         /\ ret'.val.shape = <<k>> \o var_shapes[v]
                         /\ \A j \in 0..(k - 1) : \A m \in Indices(var_shapes[v]) :
                               ret'.val.at[<<j>> \o m]
                                  = Cell(df'[o], first + j * thin + 1, NameOf(v, m))
      ]_vars

\* get_values with thin = -1 has returned two rows, the last one first
C10_Witness ==
    \E o \in Objs :
        /\ Did("get_values", o) /\ ret.err = "ok"
        /\ ret.args.thin = 0 - 1 /\ ret.args.burn = 0 - 1
        /\ ret.args.varname = <<"x">>
        /\ ret.val.shape = <<2>>
        /\ ret.val.at[<<0>>] = Cell(df[o], 2, <<"x">>)
        /\ ret.val.at[<<1>>] = Cell(df[o], 1, <<"x">>)
        /\ Cell(df[o], 1, <<"x">>) # Cell(df[o], 2, <<"x">>)

(***************************************************************************)
(* C17.  Under setup, record and close, with one writer at a time on a     *)
(* chain, a chain file only grows at its end: it comes into being in a     *)
(* setup, as the single line that joins with ',' the flat names of the     *)
(* variables of the object, variable after variable in varnames order and  *)
(* row-major within a variable; and in every step what the file held       *)
(* before is a prefix of what it holds after, so that its first line stays *)
(* that header and no line written earlier changes or goes.                *)
(***************************************************************************)
IsHeaderOf(line, vs) ==
    LET names == Split(line, ",")
    IN  /\ Len(names) = Before(vs, Len(vs) + 1)
        /\ \A i \in 1..Len(vs) : \A m \in Indices(var_shapes[vs[i]]) :
               names[Before(vs, i) + Rank(m, var_shapes[vs[i]]) + 1] = NameOf(vs[i], m)

C17_AppendOnly ==
    [][\A c \in Chains :
          /\ (files[c] = NoFile /\ files'[c] # NoFile)
                => \E o \in Objs : /\ Does("setup", o) /\ ret'.args.chain = c
                                   /\ Len(files'[c]) = 1
                                   /\ IsHeaderOf(files'[c][1], varnames[o])
          /\ files[c] # NoFile
                => /\ Len(files'[c]) >= Len(files[c])
                   /\ SubSeq(files'[c], 1, Len(files[c])) = files[c]
      ]_vars

\* a file that one object created and recorded a row in, and that the other
\* object reopened and has just recorded a second row in
C17_Witness ==
    \E o \in Objs, c \in Chains :
        /\ Did("record", o) /\ ret.err = "ok" /\ fh[o] = c
        /\ Len(files[c]) = 3
        /\ written[c][1][1] # o /\ written[c][2][1] = o
        /\ IsHeaderOf(files[c][1], varnames[o])

(***************************************************************************)
(* C19.  An object stays bound to one file: whenever its table is loaded,  *)
(* the table is what read_csv gives on what the file named by its          *)
(* filename held at some moment (a prefix of what it holds now), and       *)
(* whenever it has a handle, the handle is on the file named by its        *)
(* filename; this after a setup for another chain and after a setup that   *)
(* failed as well.                                                         *)
(***************************************************************************)
SnapshotOf(table, lines) ==
    /\ lines # NoFile
    /\ \E k \in 1..Len(lines) : table = read_csv(SubSeq(lines, 1, k))

C19_BoundToOneFile ==
    \A o \in Objs :
        /\ df[o].loaded => /\ filename[o] # None
                           /\ SnapshotOf(df[o], files[filename[o]])
        /\ fh[o] # None => fh[o] = filename[o]

(***************************************************************************)
(* C18.  Whatever setup, record and close calls are made on an object      *)
(* (setup again while it is open and a failing setup included), the object *)
(* has at most one open handle at any time, counting the handles it opened *)
(* and no longer refers to, and when close has returned no handle that the *)
(* object opened is still open.                                            *)
(***************************************************************************)
OpenHandles(o) == (IF fh[o] = None THEN 0 ELSE 1) + Cardinality(dropped[o])

C15_EveryShape ==
    Did("create_shape", 0) => ret.err = "ok" /\ ret.val = ret.args.shape

(***************************************************************************)
(* C15, amended.  For every shape whose dimensions are all at least 1 (the *)
(* empty shape included) and every name, a scalar's name holding no '__',  *)
(* the shape read back from the flat names is the shape they were made     *)
(* from.                                                                   *)
(***************************************************************************)
C15_ShapeRoundTrip ==
    (/\ Did("create_shape", 0)
     /\ \A d \in 1..Len(ret.args.shape) : ret.args.shape[d] >= 1
     /\ Len(ret.args.shape) = 0 => Seps(ret.args.varname) = {})
        => ret.err = "ok" /\ ret.val = ret.args.shape

\* the shape of a two-dimensional variable whose name holds '__' itself
C15_Witness ==
    /\ Did("create_shape", 0)
    /\ Seps(ret.args.varname) # {}
    /\ Len(ret.args.shape) = 2 /\ ret.args.shape[1] = 1 /\ ret.args.shape[2] = 2
    /\ ret.val = ret.args.shape

(***************************************************************************)
(* C16.  For every name and every shape of non-negative dimensions the     *)
(* flat names are as many as the product of the dimensions (the name alone *)
(* for the shape ()), pairwise distinct, and the name at the row-major     *)
(* position of multi-index m is name__m1_m2...                             *)
(***************************************************************************)
C16_FlatNames ==
    Did("create_flat_names", 0) =>
        LET v == ret.args.varname
            shape == ret.args.shape
        IN  /\ Len(ret.val) = Prod(shape)
            /\ Len(shape) = 0 => ret.val = <<v>>
            /\ \A i, j \in 1..Len(ret.val) : i # j => ret.val[i] # ret.val[j]
            /\ \A m \in Indices(shape) : ret.val[Rank(m, shape) + 1] = NameOf(v, m)

\* the names of a 2 x 2 variable: the second is name__0_1, the third name__1_0
C16_Witness ==
    /\ Did("create_flat_names", 0)
    /\ ret.args.shape = <<2, 2>>
    /\ Len(ret.val) = 4
    /\ ret.val[2] = ret.args.varname \o <<"_", "_", "0", "_", "1">>
    /\ ret.val[3] = ret.args.varname \o <<"_", "_", "1", "_", "0">>

(***************************************************************************)
(* C20.  For distinct variables with their shapes, no column name of one   *)
(* variable in the header is a column name of another.                     *)
(***************************************************************************)
C20_DistinctColumns ==
    Did("cnames", 0) =>
        LET n == Prod(ret.args.shapes[1])
        IN  \A i \in 1..n, j \in (n + 1)..Len(ret.val) : ret.val[i] # ret.val[j]

(***************************************************************************)
(* C11.  load on a directory returns one reader for every file named       *)
(* chain-<integer>.csv and no other: its chain is that integer, it is      *)
(* bound to that file, nothing of the file is read and no table is built;  *)
(* files with other names are ignored.                                     *)
(***************************************************************************)
C11_OneReaderPerFile ==
    Did("load", 0) =>
        /\ ret.err = "ok"
        /\ \A c \in Chains :
              Cardinality({r \in ret.val : r.chain = c})
                  = (IF files[c] # NoFile THEN 1 ELSE 0)
        /\ \A r \in ret.val : /\ r.filename = ChainFile(r.chain)
                               /\ filename[r.obj] = r.chain
                               /\ ~df[r.obj].loaded
                               /\ fh[r.obj] = None

(***************************************************************************)
(* C12.  When the directory holds a file whose name matches chain-*.csv    *)
(* and whose id part is not an integer, load still succeeds and returns    *)
(* the readers of all the chain files with an integer id.                  *)
(***************************************************************************)
C12_MalformedSkipped ==
    (Did("load", 0) /\ \E n \in others : Globbed(n) /\ ~IsInt(ChainText(n)))
        => /\ ret.err = "ok"
           /\ {r.chain : r \in ret.val} = {c \in Chains : files[c] # NoFile}

(***************************************************************************)
(* C13.  After dump, load on the same directory (which holds no            *)
(* chain-*.csv file with an id that is not an integer) succeeds with an    *)
(* unloaded reader on every chain file; the length of the reader of a      *)
(* dumped chain is the number of draws of that chain in the trace, and its *)
(* get_values of a variable of the trace is the array of shape             *)
(* (draws,) + s whose j-th entry is the value of the variable in the       *)
(* j-th draw of that chain, for the scalar and for the matrix.             *)
(***************************************************************************)
Dumped(c, v) ==
    /\ files[c] # NoFile
    /\ LET cols == Split(files[c][1], ",")
       IN  \A m \in Indices(var_shapes[v]) :
               \E i \in 1..Len(cols) : cols[i] = NameOf(v, m)

C13_DumpLoad ==
    [][/\ (Does("load", 0) /\ \A n \in others : Globbed(n) => IsInt(ChainText(n)))
            => /\ ret'.err = "ok"
               /\ \A c \in Chains : files[c] # NoFile
                     => \E o \in Objs : filename'[o] = c /\ ~df'[o].loaded
       /\ \A o \in Objs : filename[o] # None =>
             LET c == filename[o]
                 N == Len(written[c])
                 v == ret'.args.varname
                 shape == <<N>> \o var_shapes[v]
             IN  /\ Does("len", o) => ret'.err = "ok" /\ ret'.val = N
                 /\ (Does("get_values", o) /\ Has(o, v) /\ Dumped(c, v))
                       => /\ ret'.err = "ok"
                          /\ ret'.val.shape = shape
                          /\ DOMAIN ret'.val.at = Indices(shape)
                          /\ \A j \in 0..(N - 1) : \A m \in Indices(var_shapes[v]) :
                                ret'.val.at[<<j>> \o m]
                                   = Point(written[c][j + 1][2])[v].at[m]
      ]_vars

\* both chains of a trace of two draws were dumped, with the columns of y
\* before the column of x; load gave a reader to each, and the reader of
\* chain 1 has returned the two matrices of y
C13_Witness ==
    \E o \in Objs, p \in Objs :
        /\ Did("get_values", o) /\ ret.err = "ok" /\ ret.args.varname = <<"y">>
        /\ filename[o] = 1 /\ filename[p] = 0
        /\ Len(written[0]) = 2 /\ Len(written[1]) = 2
        /\ Split(files[1][1], ",")[5] = <<"x">>
        /\ ret.val.shape = <<2, 2, 2>>
        /\ ret.val.at[<<1, 0, 1>>] = Point(written[1][2][2])[<<"y">>].at[<<0, 1>>]

(***************************************************************************)
(* C14.  dump of chains that the trace has writes chain-<id>.csv for each  *)
(* of them (for all chains of the trace when none is named), whatever the  *)
(* file held before: the header is the flat names of the variables in the  *)
(* order of the trace's varnames, followed by one line per draw with the   *)
(* values in the same order; every other chain file stays as it was.       *)
(***************************************************************************)
C14_DumpWrites ==
    [][Does("dump", 0) =>
          LET tr == ret'.args.trace
              req == ret'.args.chains
              asked == IF req.all THEN DOMAIN tr.draws
                       ELSE {req.ids[i] : i \in 1..Len(req.ids)}
              vs == tr.varnames
          IN  asked \subseteq DOMAIN tr.draws =>
                \A c \in Chains :
                    IF c \in asked
                    THEN /\ Len(files'[c]) = 1 + Len(tr.draws[c])
                         /\ IsHeaderOf(files'[c][1], vs)
                         /\ \A r \in 1..Len(tr.draws[c]) :
                              \A i \in 1..Len(vs) : \A m \in Indices(var_shapes[vs[i]]) :
                                Split(files'[c][r + 1], ",")
                                      [Before(vs, i) + Rank(m, var_shapes[vs[i]]) + 1]
                                  = Str(Point(tr.draws[c][r])[vs[i]].at[m])
                    ELSE files'[c] = files[c]
      ]_vars

============================================================================
